---- MODULE Spec2Model ----
(***************************************************************************)
(* A model of the Dataset class of dataset.py: datasets of accounts that   *)
(* are assembled from sub-dataset folders, undersampled, reassigned and    *)
(* united.  A DataFrame of users is a sequence of rows; the index of a row *)
(* is its user_id, and pandas identifies accounts by that index.  The      *)
(* model follows one Dataset object through every operation; the other     *)
(* operand of a union is a dataset built from folders and possibly         *)
(* undersampled, or the object itself.                                     *)
(***************************************************************************)
EXTENDS Integers, Sequences, FiniteSets, TLC

(***************************************************************************)
(* Bounds of the model.                                                    *)
(***************************************************************************)
\* longest list of paths handed to Dataset(...) or to the paths_to_csv setter
MaxPaths == 1
\* longest users DataFrame (rows) a dataset may hold; unions beyond it are not taken
MaxRows == 2
\* longest DataFrame assigned to Dataset.users by a caller
MaxAssign == 1
\* largest num_users handed to undersample
MaxNum == 2

(***************************************************************************)
(* The file system: the sub-dataset folders and the ids in their users.csv *)
(***************************************************************************)
E13 == <<"human", "E13">>
TFP == <<"human", "TFP">>
FSF == <<"fake", "FSF">>
\* a folder whose tweets.csv is missing
BAD == <<"fake", "BAD">>
\* a folder that holds the four files but is given without its label segment
ONE == <<"E13">>

\* a folder whose friends.csv has no source_id column
MAL == <<"fake", "MAL">>

MandatoryFiles == {"users.csv", "followers.csv", "friends.csv", "tweets.csv"}

FilesIn(folder) ==
    CASE folder = E13 -> MandatoryFiles
      [] folder = TFP -> MandatoryFiles
      [] folder = FSF -> MandatoryFiles
      [] folder = ONE -> MandatoryFiles
      [] folder = BAD -> {"users.csv", "followers.csv", "friends.csv"}
      [] folder = MAL -> MandatoryFiles
      [] OTHER -> {}

\* the id column of <folder>/users.csv, in file order
UsersCsvIds(folder) ==
    CASE folder = E13 -> <<1, 2>>
      [] folder = TFP -> <<3>>
      [] folder = FSF -> <<4>>
      [] folder = ONE -> <<1, 2>>
      [] folder = MAL -> <<5>>
      [] OTHER -> <<>>

\* the paths a caller may write: plain, with a trailing separator, with a "."
\* segment, with a ".." segment, invalid
InputPaths ==
    { E13, <<"human", "TFP", "">>, <<"human", "..", "fake", ".", "FSF">>, BAD, ONE }

\* the folders that load
ValidFolders == {E13, TFP, FSF}

NoErr == "none"
None == "<None>"

(***************************************************************************)
(* Sequences helpers.                                                      *)
(***************************************************************************)
Range(s) == { s[i] : i \in 1..Len(s) }

SeqsUpTo(S, n) == UNION { [1..k -> S] : k \in 0..n }

\* pandas Index.isin(...).all(): every index value of `users` is an index value of `full`
Ids(users) == { users[i].user_id : i \in 1..Len(users) }

(***************************************************************************)
(* os.path.normpath on a relative path, the path given as its segments.    *)
(***************************************************************************)
RECURSIVE normcomps(_, _)
normcomps(comps, acc) ==
    IF comps = <<>> THEN acc
    ELSE LET c == Head(comps) IN
         IF c = "" \/ c = "." THEN normcomps(Tail(comps), acc)
         ELSE IF c # ".." \/ acc = <<>> \/ acc[Len(acc)] = ".."
              THEN normcomps(Tail(comps), Append(acc, c))
              ELSE normcomps(Tail(comps), SubSeq(acc, 1, Len(acc) - 1))

normpath(path) == IF normcomps(path, <<>>) = <<>> THEN <<".">> ELSE normcomps(path, <<>>)

(***************************************************************************)
(* Dataset.parse_path and Dataset.extract_users_from_path.                 *)
(***************************************************************************)
\* parse_path once the path is normalized and split at os.sep
parse_parts(path_parts) ==
    IF Len(path_parts) >= 2
    THEN [err |-> NoErr,
          label |-> path_parts[Len(path_parts) - 1],
          name |-> path_parts[Len(path_parts)]]
    ELSE [err |-> "InvalidDatasetFolderError", label |-> None, name |-> None]

parse_path(path) == parse_parts(normpath(path))

\* the users DataFrame read from users.csv: one row per id, indexed by user_id,
\* with the label and dataset columns; parsed is what parse_path returned
read_users(ids, parsed) ==
    IF parsed.err # NoErr
    THEN [err |-> parsed.err, users_df |-> <<>>, label |-> None, name |-> None]
    ELSE [err |-> NoErr,
          users_df |-> [i \in 1..Len(ids) |->
                          [user_id |-> ids[i], label |-> parsed.label,
                           dataset |-> parsed.name]],
          label |-> parsed.label, name |-> parsed.name]

extract_users_from_path(path) ==
    IF ~(MandatoryFiles \subseteq FilesIn(path))
    THEN [err |-> "InvalidDatasetFolderError", users_df |-> <<>>,
          label |-> None, name |-> None]
    ELSE read_users(UsersCsvIds(path), parse_path(path))

(***************************************************************************)
(* The state of a Dataset object.                                          *)
(***************************************************************************)
\* Dataset.__init__ before _set_from_paths; _full_users and _users are None there
\* and are set to the (possibly empty) concatenation by _set_from_paths
BlankDataset ==
    [label |-> None, names |-> {}, full_users |-> <<>>, users |-> <<>>,
     datafiles |-> <<>>, undersampled |-> FALSE]

\* self._datafiles[path] = ...: a dict keeps the first insertion place of a key
DictSet(keys, k) == IF k \in Range(keys) THEN keys ELSE Append(keys, k)

\* a faulty label rule, where the last folder read decides the label
NextLabel_last_wins(cur, label) == label

\* the label after one more folder of the loop
NextLabel(cur, label) ==
    IF cur = None THEN label
    ELSE IF cur # label THEN "mixed" ELSE cur

\* the loop of _set_from_paths: stops at the first path that raises
RECURSIVE set_from_paths_loop(_, _, _)
RECURSIVE set_from_paths_body(_, _, _, _, _)

\* one turn of the loop: path is the normalized path, e what
\* extract_users_from_path returned for it
set_from_paths_body(d, paths, users_dfs, path, e) ==
    IF e.err # NoErr
    THEN [d |-> d, users_dfs |-> users_dfs, err |-> e.err]
    ELSE set_from_paths_loop(
             [d EXCEPT !.label = NextLabel(@, e.label),
                       !.names = @ \cup {e.name},
                       !.datafiles = DictSet(@, path)],
             Tail(paths),
             users_dfs \o e.users_df)

set_from_paths_loop(d, paths, users_dfs) ==
    IF paths = <<>> THEN [d |-> d, users_dfs |-> users_dfs, err |-> NoErr]
    ELSE set_from_paths_body(d, paths, users_dfs, normpath(Head(paths)),
                             extract_users_from_path(normpath(Head(paths))))

\* the end of _set_from_paths, reached when the loop raised nothing
set_from_paths_end(r) ==
    IF r.err # NoErr
    THEN [d |-> r.d, err |-> r.err]
    ELSE [d |-> [r.d EXCEPT !.undersampled = FALSE,
                            !.full_users = r.users_dfs,
                            !.users = r.users_dfs],
          err |-> NoErr]

set_from_paths(d, paths) ==
    set_from_paths_end(
        set_from_paths_loop([d EXCEPT !.datafiles = <<>>], paths, <<>>))

\* Dataset(*paths_to_csv)
NewDataset(paths) == set_from_paths(BlankDataset, paths)

\* a faulty users setter, without the isin check of the index
users_setter_unchecked(d, users) ==
    IF Len(users) = Len(d.full_users)
    THEN [d |-> [d EXCEPT !.undersampled = FALSE, !.users = d.full_users],
          err |-> NoErr]
    ELSE [d |-> [d EXCEPT !.undersampled = TRUE, !.users = users],
          err |-> NoErr]

\* a faulty users setter, which assigns before it checks
users_setter_assign_first(d, users) ==
    IF ~(Ids(users) \subseteq Ids(d.full_users))
    THEN [d |-> [d EXCEPT !.undersampled = TRUE, !.users = users],
          err |-> "UserOutsideDatasetError"]
    ELSE IF Len(users) = Len(d.full_users)
         THEN [d |-> [d EXCEPT !.undersampled = FALSE, !.users = d.full_users],
               err |-> NoErr]
         ELSE [d |-> [d EXCEPT !.undersampled = TRUE, !.users = users],
               err |-> NoErr]

\* the users setter
users_setter(d, users) ==
    IF ~(Ids(users) \subseteq Ids(d.full_users))
    THEN [d |-> d, err |-> "UserOutsideDatasetError"]
    ELSE IF Len(users) = Len(d.full_users)
         THEN [d |-> [d EXCEPT !.undersampled = FALSE, !.users = d.full_users],
               err |-> NoErr]
         ELSE [d |-> [d EXCEPT !.undersampled = TRUE, !.users = users],
               err |-> NoErr]

reset_full_users(d) == [d EXCEPT !.undersampled = FALSE, !.users = d.full_users]

size(d) == Len(d.users)

paths_to_csv(d) == d.datafiles

\* DataFrame.sample(n): n rows at distinct positions, in any order
Samples(df, n) ==
    { [i \in 1..n |-> df[f[i]]] :
        f \in { g \in [1..n -> 1..Len(df)] :
                  \A i, j \in 1..n : i # j => g[i] # g[j] } }

\* the choices sample() has in undersample: none when it is not called
SampleChoices(d, num_users) ==
    IF num_users >= size(d) \/ num_users > Len(d.full_users)
    THEN {<<>>}
    ELSE Samples(d.full_users, num_users)

\* undersample(num_users); sample is what DataFrame.sample(n=num_users) drew.
\* sample raises ValueError when asked for more rows than the frame holds.
undersample(d, num_users, sample) ==
    IF num_users >= size(d)
    THEN [d |-> reset_full_users(d), err |-> NoErr]
    ELSE IF num_users > Len(d.full_users)
         THEN [d |-> d, err |-> "ValueError"]
         ELSE [d |-> [d EXCEPT !.users = sample, !.undersampled = TRUE],
               err |-> NoErr]

\* what a method without a return statement returns
NoneObject == [type |-> "NoneType"]

\* the value of the call self.undersample(num_users): the method changes self
\* and has no return statement on either branch
undersample_returns(d, num_users, sample) == NoneObject

\* the last statement of __add__ and __iadd__: built is the dataset after its
\* paths were set, undersampled_users the operands' users saved before
assign_saved_users(built, undersampled_users) ==
    IF built.err # NoErr THEN built
    ELSE users_setter(built.d, undersampled_users)

\* an operand that is not a Dataset, such as a string or a list of paths
NotADataset == [type |-> "str"]

\* isinstance(other, type(self)): a Dataset is what holds users
isinstance_dataset(other) == "users" \in DOMAIN other

\* a faulty union, which leaves out the paths of the right operand
add_without_other_paths(self, other) ==
    IF ~isinstance_dataset(other)
    THEN [d |-> self, err |-> "NotImplementedError"]
    ELSE assign_saved_users(NewDataset(paths_to_csv(self)),
                            self.users \o other.users)

\* self + other
add(self, other) ==
    IF ~isinstance_dataset(other)
    THEN [d |-> self, err |-> "NotImplementedError"]
    ELSE assign_saved_users(
             NewDataset(paths_to_csv(self) \o paths_to_csv(other)),
             self.users \o other.users)

\* a faulty +=, which looks at the type of other after it has set the paths
iadd_checks_late(self, other) ==
    IF ~isinstance_dataset(other)
    THEN [d |-> set_from_paths(self, paths_to_csv(self)).d,
          err |-> "NotImplementedError"]
    ELSE assign_saved_users(
             set_from_paths(self, paths_to_csv(self) \o paths_to_csv(other)),
             self.users \o other.users)

\* self += other
iadd(self, other) ==
    IF ~isinstance_dataset(other)
    THEN [d |-> self, err |-> "NotImplementedError"]
    ELSE assign_saved_users(
             set_from_paths(self, paths_to_csv(self) \o paths_to_csv(other)),
             self.users \o other.users)

\* a faulty +, which extends self as += does before it builds the union
add_operands_in_place(self, other) ==
    [self |-> iadd(self, other).d, other |-> other]

\* self and other after self + other: __add__ reads their users and their
\* paths, into a new frame and a new list, and assigns to new_dataset only
add_operands(self, other) == [self |-> self, other |-> other]

\* the rows of every valid folder: what a caller can put in a users DataFrame
AllRows ==
    UNION { Range(extract_users_from_path(p).users_df) : p \in ValidFolders }

\* the datasets a caller can hold beside the one under study: built from
\* folders, and possibly undersampled
FreshDatasets ==
    { d \in { NewDataset(p).d : p \in SeqsUpTo(ValidFolders, MaxPaths) } :
        Len(d.full_users) <= MaxRows }

Undersamplings(d) ==
    UNION { { undersample(d, n, smp).d : smp \in SampleChoices(d, n) } :
            n \in 0..MaxNum }

OtherDatasets == UNION { {d} \cup Undersamplings(d) : d \in FreshDatasets }

VARIABLES
    ds,     \* the Dataset object under study
    last,   \* the last operation called, its num_users and the exception it raised
    loaded, \* Datafile._loaded, the tables read so far, by absolute path
    made,   \* the Datafile constructed last
    frame,  \* the files of the sub-dataset folder a feature is evaluated on
    value,  \* what the last extraction or evaluation returned or raised
    groups  \* two feature groups and what the last G | H returned or raised

vars == <<ds, last, loaded, made, frame, value, groups>>

\* no Datafile was constructed
NoDatafile == [key |-> <<>>, parsed |-> FALSE, err |-> NoErr]

\* the cache of tables has no effect on the fields of a Dataset: it is left
\* out of the behaviours of the Dataset object and followed in SpecCache
CacheIdle == loaded = <<>> /\ made = NoDatafile

\* no folder is under evaluation, nothing was evaluated
NoFrame == [users |-> <<>>, friends |-> <<>>, followers |-> <<>>, tweets |-> <<>>]
NoValue == [feature |-> "<None>", index |-> <<>>, result |-> <<>>, y |-> <<>>,
            err |-> NoErr]

\* feature evaluation reads the files of a folder and no field of a Dataset:
\* it is followed in SpecFeature
\* no feature group was built
NoGroups == [op |-> "none"]

FeatureIdle == frame = NoFrame /\ value = NoValue /\ groups = NoGroups

Op(op, num_users, err) == [op |-> op, num_users |-> num_users, err |-> err]

\* the right-hand operands of a union: another dataset, or the dataset itself
Operands == OtherDatasets \cup {ds}

Init ==
    /\ ds = NewDataset(<<>>).d
    /\ last = Op("init", 0, NoErr)
    /\ CacheIdle
    /\ FeatureIdle

\* the model takes no step to a dataset of more than MaxRows rows
Within(res) ==
    res.err = NoErr =>
        Len(res.d.full_users) <= MaxRows /\ Len(res.d.users) <= MaxRows

\* an operation on ds that returned or raised, leaving the object as res.d
Becomes(op, res) ==
    /\ Within(res)
    /\ ds' = res.d
    /\ last' = Op(op, 0, res.err)
    /\ UNCHANGED <<loaded, made, frame, value, groups>>

\* an operation whose result is bound to ds, unless it raises
Binds(op, res) ==
    /\ Within(res)
    /\ ds' = IF res.err = NoErr THEN res.d ELSE ds
    /\ last' = Op(op, 0, res.err)
    /\ UNCHANGED <<loaded, made, frame, value, groups>>

\* the lists of paths a caller passes
PathLists == SeqsUpTo(InputPaths, MaxPaths)

\* the lists of rows a caller assigns to Dataset.users
Assignable == SeqsUpTo(AllRows, MaxAssign)

\* ds = Dataset(*paths): a constructor that raises binds nothing
Construct(paths) == Binds("Dataset", NewDataset(paths))

\* ds.paths_to_csv = paths
SetPaths(paths) == Becomes("paths_to_csv", set_from_paths(ds, paths))

\* ds.undersample(num_users)
Undersampled(num_users, res) ==
    /\ ds' = res.d
    /\ last' = Op("undersample", num_users, res.err)
    /\ UNCHANGED <<loaded, made, frame, value, groups>>

Undersample(num_users) ==
    \E smp \in SampleChoices(ds, num_users) :
        Undersampled(num_users, undersample(ds, num_users, smp))

\* ds.reset_full_users()
ResetFullUsers ==
    Becomes("reset_full_users", [d |-> reset_full_users(ds), err |-> NoErr])

\* ds.users = users
SetUsers(users) == Becomes("users", users_setter(ds, users))

\* ds = ds + other
Add(other) ==
    /\ Len(ds.users) + Len(other.users) <= MaxRows
    /\ Binds("add", add(ds, other))

\* ds = other + ds
RAdd(other) ==
    /\ Len(ds.users) + Len(other.users) <= MaxRows
    /\ Binds("add", add(other, ds))

\* ds += other
IAdd(other) ==
    /\ Len(ds.users) + Len(other.users) <= MaxRows
    /\ Becomes("iadd", iadd(ds, other))

\* ds + other and ds += other, for an other that is not a Dataset
AddForeign == Binds("add", add(ds, NotADataset))

IAddForeign == Becomes("iadd", iadd(ds, NotADataset))

Next ==
    \/ \E paths \in PathLists : Construct(paths)
    \/ \E paths \in PathLists : SetPaths(paths)
    \/ \E n \in 0..MaxNum : Undersample(n)
    \/ ResetFullUsers
    \/ \E users \in Assignable : SetUsers(users)
    \/ \E other \in Operands : Add(other)
    \/ \E other \in OtherDatasets : RAdd(other)
    \/ \E other \in Operands : IAdd(other)
    \/ AddForeign
    \/ IAddForeign

Spec == Init /\ [][Next]_vars

(***************************************************************************)
(* What the claims speak of.                                               *)
(***************************************************************************)
\* the accounts of a users DataFrame are its index values
CurrentAccounts(d) == Ids(d.users)
FullAccounts(d) == Ids(d.full_users)

\* the labels, names and accounts of the folders in a list of paths
FolderLabels(paths) == { paths[i][Len(paths[i]) - 1] : i \in 1..Len(paths) }
FolderNames(paths) == { paths[i][Len(paths[i])] : i \in 1..Len(paths) }
FolderAccounts(paths) == UNION { Range(UsersCsvIds(paths[i])) : i \in 1..Len(paths) }

\* the label the folders of paths share, "mixed" when they share none
CommonLabel(paths) ==
    IF Cardinality(FolderLabels(paths)) = 1
    THEN CHOOSE l \in FolderLabels(paths) : TRUE
    ELSE "mixed"

(***************************************************************************)
(* C1: in every reachable state the accounts of the current users are      *)
(* accounts of the full users.                                             *)
(***************************************************************************)
C1_CurrentSubsetOfFull == CurrentAccounts(ds) \subseteq FullAccounts(ds)

\* a users assignment that kept some accounts of the dataset and dropped others
C1_Witness ==
    /\ last.op = "users" /\ last.err = NoErr
    /\ ds.users # <<>>
    /\ CurrentAccounts(ds) # FullAccounts(ds)

(***************************************************************************)
(* C2: the undersampled flag is true if and only if the current accounts   *)
(* are a strict subset of the full accounts.                               *)
(***************************************************************************)
C2_FlagIffStrictSubset ==
    ds.undersampled <=>
        (CurrentAccounts(ds) \subseteq FullAccounts(ds)
         /\ CurrentAccounts(ds) # FullAccounts(ds))

(***************************************************************************)
(* C3: undersample(n) with 0 <= n < the number of full users leaves        *)
(* exactly n current users and undersampled = True, also when the dataset  *)
(* was undersampled before.                                                *)
(***************************************************************************)
C3_UndersampleBelowFull ==
    (last.op = "undersample" /\ last.num_users < Len(ds.full_users)) =>
        (last.err = NoErr /\ size(ds) = last.num_users /\ ds.undersampled)

(***************************************************************************)
(* C4: undersample(n) with n >= the number of full users leaves            *)
(* undersampled = False and the current users equal to the full users.     *)
(***************************************************************************)
C4_UndersampleAtLeastFull ==
    (last.op = "undersample" /\ last.num_users >= Len(ds.full_users)) =>
        (last.err = NoErr /\ ~ds.undersampled /\ ds.users = ds.full_users)

(***************************************************************************)
(* C5: assigning to users a DataFrame with an account that is not in the   *)
(* full users raises UserOutsideDatasetError and leaves the current users  *)
(* and the undersampled flag as they were.                                 *)
(***************************************************************************)
C5_OutsideAssignmentRaises ==
    [][\A users \in Assignable :
         (/\ last'.op = "users"
          /\ ~(Ids(users) \subseteq FullAccounts(ds))
          /\ SetUsers(users)) =>
             /\ last'.err = "UserOutsideDatasetError"
             /\ ds'.users = ds.users
             /\ ds'.undersampled = ds.undersampled]_vars

\* the assignment was refused on a dataset that was undersampled
C5_Witness ==
    /\ last.op = "users" /\ last.err = "UserOutsideDatasetError"
    /\ ds.undersampled /\ ds.full_users # <<>>

(***************************************************************************)
(* C6: the current accounts of A + B, and of A after A += B, are the       *)
(* union of the current accounts of A and of B.                            *)
(***************************************************************************)
C6_UnionOfCurrentAccounts ==
    [][\A other \in Operands :
         /\ (Add(other) /\ last'.err = NoErr) =>
                CurrentAccounts(ds') = CurrentAccounts(ds) \cup CurrentAccounts(other)
         /\ (RAdd(other) /\ last'.err = NoErr) =>
                CurrentAccounts(ds') = CurrentAccounts(other) \cup CurrentAccounts(ds)
         /\ (IAdd(other) /\ last'.err = NoErr) =>
                CurrentAccounts(ds') = CurrentAccounts(ds) \cup CurrentAccounts(other)]_vars

(***************************************************************************)
(* C7, as claimed: the label of A + B is "mixed" if and only if the label  *)
(* of A differs from the label of B.  Here A is the dataset in its current *)
(* state and B any operand, on either side of the +; both have paths and   *)
(* carry the label of their folders, so that neither a dataset without a   *)
(* label nor a label left from former paths is what the claim fails on.    *)
(***************************************************************************)
Labelled(d) == d.datafiles # <<>> /\ d.label = CommonLabel(d.datafiles)

MixedIffLabelsDiffer(sum, a, b) ==
    (Labelled(a) /\ Labelled(b) /\ sum.err = NoErr) =>
        (sum.d.label = "mixed" <=> a.label # b.label)

C7_MixedIffLabelsDiffer ==
    \A other \in Operands :
        /\ MixedIffLabelsDiffer(add(ds, other), ds, other)
        /\ MixedIffLabelsDiffer(add(other, ds), other, ds)

(***************************************************************************)
(* C7, amended: the label of A + B is "mixed" if and only if the folders   *)
(* in the paths of A and of B do not all carry one label.                  *)
(***************************************************************************)
MixedIffFoldersDiffer(sum, paths) ==
    sum.err = NoErr =>
        (sum.d.label = "mixed" <=> Cardinality(FolderLabels(paths)) > 1)

C7_MixedIffFoldersDiffer ==
    \A other \in Operands :
        /\ MixedIffFoldersDiffer(add(ds, other), ds.datafiles \o other.datafiles)
        /\ MixedIffFoldersDiffer(add(other, ds), other.datafiles \o ds.datafiles)

\* a union of a human and a fake folder came out "mixed"
C7_Witness ==
    /\ last.op = "add" /\ last.err = NoErr
    /\ ds.label = "mixed"
    /\ FolderLabels(ds.datafiles) = {"human", "fake"}

(***************************************************************************)
(* C8: in every reachable state of a dataset with at least one path the    *)
(* label is the label its folders share, and "mixed" when they share none. *)
(***************************************************************************)
C8_LabelOfCurrentPaths ==
    ds.datafiles # <<>> => ds.label = CommonLabel(ds.datafiles)

(***************************************************************************)
(* C9: in every reachable state (the name is never assigned here) the      *)
(* names joined into `name` are the names of the folders now in            *)
(* paths_to_csv, and the full users are the accounts of those folders.     *)
(***************************************************************************)
C9_NamesAndFullOfCurrentPaths ==
    /\ ds.names = FolderNames(ds.datafiles)
    /\ FullAccounts(ds) = FolderAccounts(ds.datafiles)

(***************************************************************************)
(* C10: for A and B that hold the accounts of their folders, have at least *)
(* one folder each and none in common, and are not undersampled, A + B is  *)
(* returned with size A.size + B.size; when A is labeled "human" and B     *)
(* "fake" it is labeled "mixed" and named after the folders of A and of B. *)
(***************************************************************************)
BuiltFromFolders(d) ==
    /\ d.datafiles # <<>>
    /\ FullAccounts(d) = FolderAccounts(d.datafiles)
    /\ ~d.undersampled

DisjointFolders(a, b) == Range(a.datafiles) \cap Range(b.datafiles) = {}

UnionOfDisjoint(a, b, sum) ==
    /\ last'.err = NoErr
    /\ size(sum) = size(a) + size(b)
    /\ (a.label = "human" /\ b.label = "fake") =>
           /\ sum.label = "mixed"
           /\ sum.names = FolderNames(a.datafiles) \cup FolderNames(b.datafiles)

C10_UnionOfDisjointFolders ==
    [][\A other \in Operands :
         (/\ last'.op = "add"
          /\ BuiltFromFolders(ds) /\ BuiltFromFolders(other)
          /\ DisjointFolders(ds, other)) =>
             /\ Add(other) => UnionOfDisjoint(ds, other, ds')
             /\ RAdd(other) => UnionOfDisjoint(other, ds, ds')]_vars

\* the union of a human and a fake dataset, one account each
C10_Witness ==
    /\ last.op = "add" /\ last.err = NoErr
    /\ ds.label = "mixed" /\ ~ds.undersampled
    /\ ds.names = {"TFP", "FSF"}
    /\ size(ds) = 2

(***************************************************************************)
(* The comparisons of two datasets.  They change neither operand, so they  *)
(* are followed in a specification of their own: the dataset and the right *)
(* operand are drawn when the behaviour starts, and every step makes one   *)
(* call and records what it returned.  Every dataset drawn has at least    *)
(* one folder, so that its users DataFrame carries the columns label and   *)
(* dataset and DataFrame.equals comes down to the equality of the rows,    *)
(* in their order.                                                         *)
(***************************************************************************)
Returns(result) == [result |-> result, err |-> NoErr]

\* self == other
eq(self, other) ==
    IF ~isinstance_dataset(other) THEN Returns(FALSE)
    ELSE Returns(self.users = other.users)

\* self < other
lt(self, other) ==
    IF ~isinstance_dataset(other) THEN Returns(FALSE)
    ELSE Returns(Ids(self.users) \subseteq Ids(other.users))

\* self > other
gt(self, other) ==
    IF ~isinstance_dataset(other) THEN Returns(FALSE)
    ELSE Returns(Ids(other.users) \subseteq Ids(self.users))

\* self <= other
le(self, other) ==
    IF ~isinstance_dataset(other) THEN Returns(FALSE)
    ELSE Returns(eq(self, other).result \/ lt(self, other).result)

\* self >= other
ge(self, other) ==
    IF ~isinstance_dataset(other) THEN Returns(FALSE)
    ELSE Returns(eq(self, other).result \/ gt(self, other).result)

\* the datasets of one folder, whole or undersampled
OneFolderDatasets ==
    UNION { {NewDataset(<<p>>).d} \cup Undersamplings(NewDataset(<<p>>).d) :
            p \in ValidFolders }

\* the datasets compared: those of one folder and the unions of two of them
Compared == OneFolderDatasets \cup
            { add(a, b).d : a \in OneFolderDatasets, b \in OneFolderDatasets }

\* the call made last on ds, its right operand and what it returned or raised
Call(op, other, res) ==
    [op |-> op, other |-> other, result |-> res.result, err |-> res.err]

InitQuery ==
    /\ CacheIdle
    /\ FeatureIdle
    /\ ds \in Compared
    /\ last \in { Call("none", other, Returns(FALSE)) :
                  other \in Compared \cup {NotADataset} }

\* a call on ds that changes nothing but what was called last
Called(op, res) ==
    /\ last' = Call(op, last.other, res)
    /\ UNCHANGED <<ds, loaded, made, frame, value, groups>>

Eq == Called("eq", eq(ds, last.other))
Lt == Called("lt", lt(ds, last.other))
Gt == Called("gt", gt(ds, last.other))
Le == Called("le", le(ds, last.other))
Ge == Called("ge", ge(ds, last.other))

\* ds + last.other, the new dataset bound to neither operand
Plus ==
    /\ ds' = add_operands(ds, last.other).self
    /\ last' = Call("add", add_operands(ds, last.other).other,
                    [result |-> add(ds, last.other).d,
                     err |-> add(ds, last.other).err])
    /\ UNCHANGED <<loaded, made, frame, value, groups>>

NextQuery == Eq \/ Lt \/ Gt \/ Le \/ Ge \/ Plus

SpecQuery == InitQuery /\ [][NextQuery]_vars

\* the last call compared ds with a dataset
ComparedBy(op) == last.op = op /\ isinstance_dataset(last.other)

(***************************************************************************)
(* C11: A == B is true exactly when A and B have the same set of current   *)
(* accounts, whatever the order of the accounts.                           *)
(***************************************************************************)
C11_EqualIffSameAccounts ==
    ComparedBy("eq") =>
        (last.result <=> CurrentAccounts(ds) = CurrentAccounts(last.other))

(***************************************************************************)
(* C12: A < B is true exactly when the current accounts of A are a strict  *)
(* subset of those of B, A > B exactly when those of B are a strict subset *)
(* of those of A, and A <= B, A >= B exactly when the inclusion holds.     *)
(***************************************************************************)
StrictSubset(a, b) == a \subseteq b /\ a # b

C12_OrderIsSubsetOrder ==
    /\ ComparedBy("lt") =>
           (last.result <=>
               StrictSubset(CurrentAccounts(ds), CurrentAccounts(last.other)))
    /\ ComparedBy("gt") =>
           (last.result <=>
               StrictSubset(CurrentAccounts(last.other), CurrentAccounts(ds)))
    /\ ComparedBy("le") =>
           (last.result <=>
               CurrentAccounts(ds) \subseteq CurrentAccounts(last.other))
    /\ ComparedBy("ge") =>
           (last.result <=>
               CurrentAccounts(last.other) \subseteq CurrentAccounts(ds))

(***************************************************************************)
(* C13: comparing a dataset with an operand that is not a dataset, with    *)
(* ==, <, >, <= or >=, raises an error.                                    *)
(***************************************************************************)
C13_ForeignComparisonRaises ==
    (last.op \in {"eq", "lt", "gt", "le", "ge"} /\ ~isinstance_dataset(last.other))
        => last.err # NoErr

(***************************************************************************)
(* C14: the union, by + or by +=, of a dataset with an operand that is not *)
(* a dataset raises an error, and += leaves the paths, the full users, the *)
(* current users, the label, the names and the undersampled flag of its    *)
(* receiver as they were.                                                  *)
(***************************************************************************)
C14_ForeignUnionRaises ==
    [][(AddForeign \/ IAddForeign) =>
           /\ last'.err = "NotImplementedError"
           /\ ds' = ds]_vars

\* += was refused on a dataset with folders that was undersampled
C14_Witness ==
    /\ last.op = "iadd" /\ last.err = "NotImplementedError"
    /\ ds.undersampled /\ ds.datafiles # <<>>

(***************************************************************************)
(* The cache of tables of datafile.py.  Datafile._loaded is one dict for   *)
(* the whole process, keyed by the absolute path of a csv file.  A table   *)
(* object is told from every other by the file it was read from, by the    *)
(* call that made it (read_csv, or the groupby().agg(list) of              *)
(* _prepare_data) and by how many times that file had been read.           *)
(***************************************************************************)
\* the prefixes of the Datafile classes, in the order of MinimalDatafiles
Prefixes == <<"users", "friends", "followers", "tweets">>

\* f"{prefix}.csv"
CsvOf(prefix) ==
    CASE prefix = "users" -> "users.csv"
      [] prefix = "friends" -> "friends.csv"
      [] prefix = "followers" -> "followers.csv"
      [] prefix = "tweets" -> "tweets.csv"

\* the working directory of the process, which os.path.abspath prepends
Cwd == <<"INFOY120">>

abspath(path) == <<"/">> \o normcomps(Cwd \o path, <<>>)

\* the folders of the file system
Folders == {E13, TFP, FSF, BAD, MAL}

\* the csv files that exist, and those whose columns _prepare_data misses
CsvFiles ==
    UNION { { abspath(Append(folder, file)) : file \in FilesIn(folder) } :
            folder \in Folders }

MalformedCsvFiles == { abspath(Append(MAL, "friends.csv")) }

Table(key, made_by, reads, prepared) ==
    [of |-> key, made_by |-> made_by, reads |-> reads, prepared |-> prepared]

Made(key, parsed, err) == [key |-> key, parsed |-> parsed, err |-> err]

\* how many times the file had been read when it is read once more
ReadsOf(ld, key) == IF key \in DOMAIN ld THEN ld[key].reads + 1 ELSE 1

\* self._prepare_data() of the four subclasses: UsersDatafile works in place,
\* the three others replace the entry by the grouped table; a missing column
\* raises KeyError and leaves the entry as it was read
prepare_data(ld, key, prefix) ==
    IF key \in MalformedCsvFiles
    THEN [loaded |-> ld, made |-> Made(key, TRUE, "KeyError")]
    ELSE IF prefix = "users"
         THEN [loaded |-> (key :> [ld[key] EXCEPT !.prepared = TRUE]) @@ ld,
               made |-> Made(key, TRUE, NoErr)]
         ELSE [loaded |-> (key :> Table(key, "agg", ld[key].reads, TRUE)) @@ ld,
               made |-> Made(key, TRUE, NoErr)]

\* a faulty constructor, which reads the file whether or not it is cached
datafile_init_at_always_reads(ld, key, prefix) ==
    IF key \notin CsvFiles
    THEN [loaded |-> ld, made |-> Made(key, FALSE, "FileNotFoundError")]
    ELSE prepare_data(
             (key :> Table(key, "read_csv", ReadsOf(ld, key), FALSE)) @@ ld,
             key, prefix)

\* Datafile.__init__, from the test of self._path on
datafile_init_at(ld, key, prefix) ==
    IF key \in DOMAIN ld
    THEN [loaded |-> ld, made |-> Made(key, FALSE, NoErr)]
    ELSE IF key \notin CsvFiles
         THEN [loaded |-> ld, made |-> Made(key, FALSE, "FileNotFoundError")]
         ELSE prepare_data(
                  (key :> Table(key, "read_csv", ReadsOf(ld, key), FALSE)) @@ ld,
                  key, prefix)

\* Datafile.__init__(path) of the subclass of that prefix
datafile_init(ld, path, prefix) ==
    datafile_init_at(ld, abspath(Append(normpath(path), CsvOf(prefix))), prefix)

\* MinimalDatafiles(path): the four Datafiles, up to the first that raises
RECURSIVE minimal_datafiles(_, _, _)
minimal_datafiles_next(r, path, prefixes) ==
    IF r.made.err # NoErr THEN r
    ELSE minimal_datafiles(r, path, Tail(prefixes))

minimal_datafiles(r, path, prefixes) ==
    IF prefixes = <<>> THEN r
    ELSE minimal_datafiles_next(datafile_init(r.loaded, path, Head(prefixes)),
                                path, prefixes)

\* the loop of _set_from_paths, for what it does to the cache: it stops at
\* the first folder that extract_users_from_path refuses or that fails to load
RECURSIVE set_from_paths_loads(_, _)
set_from_paths_loads_next(r, paths) ==
    IF r.made.err # NoErr THEN r ELSE set_from_paths_loads(r, Tail(paths))

set_from_paths_loads(r, paths) ==
    IF paths = <<>> THEN r
    ELSE IF extract_users_from_path(normpath(Head(paths))).err # NoErr THEN r
         ELSE set_from_paths_loads_next(
                  minimal_datafiles(r, normpath(Head(paths)), Prefixes), paths)

\* the paths Datafiles are constructed over, some in two spellings
DatafilePaths == { E13, <<"human", ".", "E13", "">>, BAD, MAL }

InitCache ==
    /\ ds = BlankDataset
    /\ last = Op("init", 0, NoErr)
    /\ loaded = <<>>
    /\ made = NoDatafile
    /\ FeatureIdle

Loads(r) ==
    /\ loaded' = r.loaded
    /\ made' = r.made
    /\ UNCHANGED <<ds, last, frame, value, groups>>

\* UsersDatafile(path), FriendsDatafile(path), ...
NewDatafile(path, prefix) == Loads(datafile_init(loaded, path, prefix))

\* Dataset(*paths), or the paths_to_csv setter of some dataset
DatasetLoads(paths) ==
    Loads(set_from_paths_loads([loaded |-> loaded, made |-> NoDatafile], paths))

NextCache ==
    \/ \E path \in DatafilePaths, prefix \in Range(Prefixes) : NewDatafile(path, prefix)
    \/ \E paths \in SeqsUpTo(DatafilePaths, MaxPaths) : DatasetLoads(paths)

SpecCache == InitCache /\ [][NextCache]_vars

(***************************************************************************)
(* C15: once a file has been loaded successfully, no later step evicts or  *)
(* replaces its table in the cache, and a Datafile constructed over the    *)
(* same absolute path reads nothing and raises nothing, so that it exposes *)
(* that very table.                                                        *)
(***************************************************************************)
C15_LoadedOnceNeverReplaced ==
    [][\A key \in DOMAIN loaded :
         loaded[key].prepared =>
             /\ key \in DOMAIN loaded'
             /\ loaded'[key] = loaded[key]
             /\ made'.key = key => (~made'.parsed /\ made'.err = NoErr)]_vars

\* a grouped table was found in the cache by a later construction, written
\* with another spelling of the path
C15_Witness ==
    /\ made.key \in DOMAIN loaded
    /\ ~made.parsed /\ made.err = NoErr
    /\ loaded[made.key].made_by = "agg" /\ loaded[made.key].prepared

(***************************************************************************)
(* C16: when paths_to_csv is reassigned to a list in which some folder is  *)
(* invalid, the call raises InvalidDatasetFolderError and leaves the       *)
(* paths, the full users, the current users, the label, the names and the  *)
(* undersampled flag of the dataset as they were.                          *)
(***************************************************************************)
SomeFolderInvalid(paths) ==
    \E i \in 1..Len(paths) : extract_users_from_path(normpath(paths[i])).err # NoErr

C16_LoadsWhollyOrNotAtAll ==
    [][\A paths \in PathLists :
         (/\ last'.op = "paths_to_csv"
          /\ SomeFolderInvalid(paths)
          /\ SetPaths(paths)) =>
             /\ last'.err = "InvalidDatasetFolderError"
             /\ ds' = ds]_vars

(***************************************************************************)
(* Features (src/feature.py).  A Python str is a sequence of one-character *)
(* strings, so that lower(), split(), join() and `in` are computed as      *)
(* Python computes them.                                                   *)
(***************************************************************************)
UpperCase == <<"A", "B", "C", "D", "E", "F", "G", "H", "I", "J", "K", "L", "M", "N", "O", "P", "Q", "R", "S", "T", "U", "V", "W", "X", "Y", "Z">>
LowerCase == <<"a", "b", "c", "d", "e", "f", "g", "h", "i", "j", "k", "l", "m", "n", "o", "p", "q", "r", "s", "t", "u", "v", "w", "x", "y", "z">>

\* str.lower()
lower(s) ==
    [i \in 1..Len(s) |->
        IF \E k \in DOMAIN UpperCase : UpperCase[k] = s[i]
        THEN LowerCase[CHOOSE k \in DOMAIN UpperCase : UpperCase[k] = s[i]]
        ELSE s[i]]

\* sub in s
contains(sub, s) ==
    \E i \in 0..(Len(s) - Len(sub)) : SubSeq(s, i + 1, i + Len(sub)) = sub

\* str.split(): the maximal runs of non-blank characters
RECURSIVE split_from(_, _, _, _)
split_from(s, i, word, words) ==
    IF i > Len(s)
    THEN IF word = <<>> THEN words ELSE Append(words, word)
    ELSE IF s[i] = " "
         THEN split_from(s, i + 1, <<>>,
                         IF word = <<>> THEN words ELSE Append(words, word))
         ELSE split_from(s, i + 1, Append(word, s[i]), words)

split(s) == split_from(s, 1, <<>>, <<>>)

\* "".join(words)
RECURSIVE join(_)
join(words) ==
    IF words = <<>> THEN <<>> ELSE Head(words) \o join(Tail(words))

\* a cell of a DataFrame: a value, or the NaN that reindex fills in
Cell(v) == [nan |-> FALSE, v |-> v]
NaN == [nan |-> TRUE, v |-> <<>>]

\* cell is np.nan
is_nan(cell) == cell.nan

\* the lambda of uses_hashtag:
\* False if tweets is np.nan else any("#" in tweet for tweet in tweets)
uses_hashtag_func(tweets) ==
    IF is_nan(tweets) THEN FALSE
    ELSE \E i \in 1..Len(tweets.v) : contains(<<"#">>, tweets.v[i])

\* the evaluate function of has_name
\* str() of a missing value is "nan"
str(cell) == IF is_nan(cell) THEN <<"n", "a", "n">> ELSE cell.v

\* the evaluate function of has_name: len(str(string_arg).strip()) > 0
string_not_empty(string_arg) ==
    \E i \in 1..Len(str(string_arg)) : str(string_arg)[i] # " "

\* sources.count(x)
count(list, x) == Cardinality({ i \in 1..Len(list) : list[i] = x })

\* max(sources, key=sources.count): the first element of the largest count
max_by_count(list) ==
    list[CHOOSE i \in 1..Len(list) :
            /\ \A j \in 1..Len(list) : count(list, list[j]) <= count(list, list[i])
            /\ \A j \in 1..(i - 1) : count(list, list[j]) < count(list, list[i])]

uses_platform_func(source, platform) ==
    contains(lower(platform), lower(source))

uses_iphone_func(source) == uses_platform_func(source, <<"i", "p", "h", "o", "n", "e">>)
uses_android_func(source) == uses_platform_func(source, <<"a", "n", "d", "r", "o", "i", "d">>)
uses_instagram_func(source) == uses_platform_func(source, <<"i", "n", "s", "t", "a", "g", "r", "a", "m">>)
uses_foursquare_func(source) == uses_platform_func(source, <<"f", "o", "u", "r", "s", "q", "u", "a", "r", "e">>)
uses_twitter_func(source) == uses_platform_func(source, <<"w", "e", "b">>)

uses_other_func(source) ==
    ~(\/ uses_iphone_func(source)
      \/ uses_android_func(source)
      \/ uses_instagram_func(source)
      \/ uses_foursquare_func(source)
      \/ uses_twitter_func(source))

\* the call of the function a partial of is_platform_max is bound to
platform_func_call(platform_func, source) ==
    CASE platform_func = "uses_iphone_func" -> uses_iphone_func(source)
      [] platform_func = "uses_android_func" -> uses_android_func(source)
      [] platform_func = "uses_instagram_func" -> uses_instagram_func(source)
      [] platform_func = "uses_foursquare_func" -> uses_foursquare_func(source)
      [] platform_func = "uses_twitter_func" -> uses_twitter_func(source)
      [] platform_func = "uses_other_func" -> uses_other_func(source)

is_platform_max(sources, platform_func) ==
    IF is_nan(sources) THEN FALSE
    ELSE platform_func_call(platform_func, max_by_count(sources.v))

\* datetime.strptime(created, "%a %b %d %H:%M:%S +0000 %Y"): the weekday is
\* read and dropped, the month name becomes its number, the year comes first
Months == <<"Jan", "Feb", "Mar", "Apr", "May", "Jun",
            "Jul", "Aug", "Sep", "Oct", "Nov", "Dec">>

strptime(created) ==
    <<created.Y, (CHOOSE m \in DOMAIN Months : Months[m] = created.b), created.d,
      created.H, created.M, created.S>>

\* datetime < datetime
RECURSIVE tuple_lt(_, _)
tuple_lt(a, b) ==
    /\ a # <<>>
    /\ \/ Head(a) < Head(b)
       \/ Head(a) = Head(b) /\ tuple_lt(Tail(a), Tail(b))

\* sorted(pairs, key=...) of the pairs (tweet, created): a stable sort
RECURSIVE insert_sorted(_, _)
insert_sorted(pairs, x) ==
    IF pairs = <<>> THEN <<x>>
    ELSE IF tuple_lt(strptime(x[2]), strptime(pairs[Len(pairs)][2]))
         THEN Append(insert_sorted(SubSeq(pairs, 1, Len(pairs) - 1), x),
                     pairs[Len(pairs)])
         ELSE Append(pairs, x)

RECURSIVE sorted_by_created(_)
sorted_by_created(pairs) ==
    IF pairs = <<>> THEN <<>>
    ELSE insert_sorted(sorted_by_created(SubSeq(pairs, 1, Len(pairs) - 1)),
                       pairs[Len(pairs)])

\* zip(tweets, created): as long as the shorter list
zip(tweets, created) ==
    [i \in 1..(IF Len(tweets) < Len(created) THEN Len(tweets) ELSE Len(created))
        |-> <<tweets[i], created[i]>>]

\* the window of words compared and the number of tweets looked at
WindowWords == 4
LastTweets == 15

\* list[-n:]
last_n(list, n) ==
    IF Len(list) <= n THEN list ELSE SubSeq(list, Len(list) - n + 1, Len(list))

\* the inner loop of tweets_similarity_func over the words of one tweet: the
\* running window, the windows seen so far, and whether it has returned True
RECURSIVE similarity_words(_, _, _), similarity_step(_, _, _)
similarity_words(words, four_consecutive, consecutives) ==
    IF words = <<>>
    THEN [found |-> FALSE, consecutives |-> consecutives]
    ELSE similarity_step(Tail(words),
                         IF Len(four_consecutive) + 1 > WindowWords
                         THEN Tail(Append(four_consecutive, Head(words)))
                         ELSE Append(four_consecutive, Head(words)),
                         consecutives)

\* the body of the loop once the word is in the window: the window is looked
\* up whatever its length, and recorded when it holds WindowWords words
similarity_step(rest, four_consecutive, consecutives) ==
    IF \E i \in 1..Len(consecutives) : consecutives[i] = join(four_consecutive)
    THEN [found |-> TRUE, consecutives |-> consecutives]
    ELSE similarity_words(rest, four_consecutive,
                          IF Len(four_consecutive) = WindowWords
                          THEN Append(consecutives, join(four_consecutive))
                          ELSE consecutives)

\* the outer loop over the tweets
RECURSIVE similarity_tweets(_, _), similarity_next(_, _)
similarity_tweets(tweets, consecutives) ==
    IF tweets = <<>> THEN FALSE
    ELSE similarity_next(Tail(tweets),
                         similarity_words(split(Head(tweets)), <<>>, consecutives))

similarity_next(rest, r) ==
    IF r.found THEN TRUE ELSE similarity_tweets(rest, r.consecutives)

\* [t.lower() for t, _ in sorted(zip(tweets, created), key=...)][-15:]
last_15(tweets, created) ==
    last_n([i \in 1..Len(zip(tweets, created)) |->
               lower(sorted_by_created(zip(tweets, created))[i][1])],
           LastTweets)

tweets_similarity_func(tweets, created) ==
    IF is_nan(tweets) \/ is_nan(created) THEN FALSE
    ELSE similarity_tweets(last_15(tweets.v, created.v), <<>>)

\* Feature(name, evaluate, **columns): the function that evaluates a row, the
\* function a partial binds it to, and the "prefix/column" of each argument
Feature(name, evaluate, platform_func, columns) ==
    [cls |-> "Feature", name |-> name, evaluate |-> evaluate,
     platform_func |-> platform_func, columns |-> columns]

\* FeaturesGroup(iterable=...), a NamedSet of features
FeaturesGroup(iterable) ==
    [cls |-> "FeaturesGroup", name |-> "Generic group", data |-> iterable]

isinstance_feature(features) == features.cls = "Feature"

has_name ==
    Feature("has_name", "string_not_empty", None, << <<"users", "name">> >>)
uses_hashtag ==
    Feature("uses_hashtag", "uses_hashtag_func", None, << <<"tweets", "text">> >>)
tweets_similarity ==
    Feature("tweets_similarity", "tweets_similarity_func", None,
            << <<"tweets", "text">>, <<"tweets", "created_at">> >>)

\* Feature(name, partial(is_platform_max, platform_func=...),
\*         sources="tweets/source")
uses_platform(name, platform_func) ==
    Feature(name, "is_platform_max", platform_func, << <<"tweets", "source">> >>)

\* uses_iphone, uses_android, uses_instagram, uses_foursquare, uses_twitter,
\* uses_other
PlatformFeatures ==
    <<uses_platform("uses_iphone", "uses_iphone_func"),
      uses_platform("uses_android", "uses_android_func"),
      uses_platform("uses_instagram", "uses_instagram_func"),
      uses_platform("uses_foursquare", "uses_foursquare_func"),
      uses_platform("uses_twitter", "uses_twitter_func"),
      uses_platform("uses_other", "uses_other_func")>>

Features ==
    {has_name, uses_hashtag, tweets_similarity} \cup Range(PlatformFeatures)

\* Feature.needed_columns(datafile_prefix); a FeaturesGroup has no such method
has_needed_columns(feature) == isinstance_feature(feature)

needed_columns(feature, datafile_prefix) ==
    [i \in 1..Len(SelectSeq(feature.columns,
                            LAMBDA c : c[1] = datafile_prefix)) |->
        SelectSeq(feature.columns, LAMBDA c : c[1] = datafile_prefix)[i][2]]

\* a DataFrame: its index, its columns, and the cells of each row
DataFrame(index, columns, rows) ==
    [index |-> index, columns |-> columns, rows |-> rows]

\* DataFrame.empty
empty(df) == df.index = <<>> \/ df.columns = <<>>

\* the ascending sequence of a set of ids: the group keys of groupby
RECURSIVE ascending(_)
ascending(S) ==
    IF S = {} THEN <<>>
    ELSE <<CHOOSE m \in S : \A x \in S : m <= x>> \o
         ascending(S \ {CHOOSE m \in S : \A x \in S : m <= x})

\* the values of a column in the rows of one key, in the order of the file
column_of(rows, key, id, column) ==
    [i \in 1..Len(SelectSeq(rows, LAMBDA r : r[key] = id)) |->
        SelectSeq(rows, LAMBDA r : r[key] = id)[i][column]]

\* rename(columns={key: "user_id", ...}) then groupby("user_id").agg(list)
groupby_agg_list(rows, key, columns, renamed) ==
    DataFrame(ascending({ rows[i][key] : i \in 1..Len(rows) }),
              renamed,
              [id \in { rows[i][key] : i \in 1..Len(rows) } |->
                 [j \in 1..Len(columns) |->
                    Cell(column_of(rows, key, id, columns[j]))]])

\* UsersDatafile._prepare_data: the index is the id column, in file order
users_prepare_data(rows) ==
    DataFrame([i \in 1..Len(rows) |-> rows[i].id],
              <<"name">>,
              [id \in { rows[i].id : i \in 1..Len(rows) } |->
                 <<Cell((CHOOSE r \in Range(rows) : r.id = id).name)>>])

\* the user_grouped_df of the Datafile of a prefix over the files of a folder
user_grouped_df(files, prefix) ==
    CASE prefix = "users" -> users_prepare_data(files.users)
      [] prefix = "friends" ->
            groupby_agg_list(files.friends, "source_id",
                             <<"target_id">>, <<"friends_id">>)
      [] prefix = "followers" ->
            groupby_agg_list(files.followers, "target_id",
                             <<"source_id">>, <<"followers_id">>)
      [] prefix = "tweets" ->
            groupby_agg_list(files.tweets, "user_id",
                             <<"text", "source", "created_at">>,
                             <<"text", "source", "created_at">>)

\* the position of a column in a DataFrame
column_at(df, name) == CHOOSE j \in 1..Len(df.columns) : df.columns[j] = name

\* Datafile.extract(columns_names): the columns, renamed prefix_column
datafile_extract(df, prefix, columns_names) ==
    DataFrame(df.index,
              [j \in 1..Len(columns_names) |-> <<prefix, columns_names[j]>>],
              [id \in Range(df.index) |->
                 [j \in 1..Len(columns_names) |->
                    df.rows[id][column_at(df, columns_names[j])]]])

\* pd.concat(frames, axis=1): the rows are joined on the union of the indexes,
\* a row absent from a frame gets missing values in the columns of that frame
row_or_nan(df, id) ==
    IF id \in Range(df.index) THEN df.rows[id]
    ELSE [j \in 1..Len(df.columns) |-> NaN]

union_index(frames) ==
    IF \A i \in 1..Len(frames) : frames[i].index = frames[1].index
    THEN frames[1].index
    ELSE ascending(UNION { Range(frames[i].index) : i \in 1..Len(frames) })

concat_columns(frames) ==
    DataFrame(union_index(frames),
              join([i \in 1..Len(frames) |-> frames[i].columns]),
              [id \in Range(union_index(frames)) |->
                 join([i \in 1..Len(frames) |-> row_or_nan(frames[i], id)])])

\* DataFrame.reindex(index)
reindex(df, index) ==
    DataFrame(index, df.columns, [id \in Range(index) |-> row_or_nan(df, id)])

\* the loop of MinimalDatafiles.extract: the columns of each Datafile that
\* the feature needs, those of an empty table left out
extracted_of(files, feature, prefix) ==
    datafile_extract(user_grouped_df(files, prefix), prefix,
                     needed_columns(feature, prefix))

extracted_columns(files, feature) ==
    SelectSeq([i \in 1..Len(Prefixes) |->
                  extracted_of(files, feature, Prefixes[i])],
              LAMBDA columns : ~empty(columns))

Extracted(df, err) == [df |-> df, err |-> err]

\* MinimalDatafiles.extract(feature)
minimal_datafiles_extract(files, feature) ==
    IF ~has_needed_columns(feature)
    THEN Extracted(<<>>, "AttributeError")
    ELSE IF extracted_columns(files, feature) = <<>>
         THEN Extracted(<<>>, "ValueError")
         ELSE Extracted(reindex(concat_columns(extracted_columns(files, feature)),
                                user_grouped_df(files, "users").index),
                        NoErr)

\* evaluate_row: the cell of the column bound to the k-th argument
argument(feature, df, id, k) ==
    df.rows[id][column_at(df, feature.columns[k])]

evaluate_row(feature, df, id) ==
    CASE feature.evaluate = "string_not_empty" ->
            string_not_empty(argument(feature, df, id, 1))
      [] feature.evaluate = "uses_hashtag_func" ->
            uses_hashtag_func(argument(feature, df, id, 1))
      [] feature.evaluate = "is_platform_max" ->
            is_platform_max(argument(feature, df, id, 1), feature.platform_func)
      [] feature.evaluate = "tweets_similarity_func" ->
            tweets_similarity_func(argument(feature, df, id, 1),
                                   argument(feature, df, id, 2))

\* Feature.evaluate(dataframe): dataframe.apply(evaluate_row, axis=1)
evaluate(feature, df) ==
    [i \in 1..Len(df.index) |-> evaluate_row(feature, df, df.index[i])]

\* the values of a feature over the accounts of a folder, or the exception
Value(name, index, result, y, err) ==
    [feature |-> name, index |-> index, result |-> result, y |-> y, err |-> err]

evaluated(feature, x) ==
    IF x.err # NoErr THEN Value(feature.name, <<>>, <<>>, <<>>, x.err)
    ELSE Value(feature.name, x.df.index, evaluate(feature, x.df), <<>>, NoErr)

evaluate_feature(files, feature) ==
    evaluated(feature, minimal_datafiles_extract(files, feature))

(***************************************************************************)
(* The folders features are evaluated on.                                  *)
(***************************************************************************)
MaxTweets == 2
MaxSources == 3

Frame(users, tweets) ==
    [users |-> users, friends |-> <<>>, followers |-> <<>>, tweets |-> tweets]

UserRow(id, name) == [id |-> id, name |-> name]

TweetRow(user_id, text, source, created_at) ==
    [user_id |-> user_id, text |-> text, source |-> source,
     created_at |-> created_at]

\* "Wed Jan 01 00:00:SS +0000 YYYY" and the like
Stamp(a, b, S, Y) == [a |-> a, b |-> b, d |-> 1, H |-> 0, M |-> 0, S |-> S, Y |-> Y]

\* three moments whose order as text is not their order in time
Stamps == { Stamp("Sun", "Dec", 0, 2019), Stamp("Wed", "Jan", 0, 2020),
            Stamp("Sat", "Feb", 0, 2020) }

TwoUsers == <<UserRow(1, <<"A", "n", "n">>), UserRow(2, <<>>)>>
OneUser == <<UserRow(1, <<"A", "n", "n">>)>>

Texts == { <<"h", "i", " ", "a", "l", "l">>, <<"a", " ", "#", "t", "a", "g">> }

Sources == { <<"w", "e", "b">>, <<"T", "w", "i", "t", "t", "e", "r", " ", "f", "o", "r", " ", "i", "P", "h", "o", "n", "e">>, <<"T", "w", "i", "t", "t", "e", "r", " ", "f", "o", "r", " ", "A", "n", "d", "r", "o", "i", "d">>,
             <<"I", "n", "s", "t", "a", "g", "r", "a", "m">>, <<"f", "o", "u", "r", "s", "q", "u", "a", "r", "e">>, <<"T", "w", "i", "t", "t", "e", "r", " ", "f", "o", "r", " ", "M", "a", "c">>,
             <<"M", "o", "b", "i", "l", "e", " ", "W", "e", "b", " ", "f", "o", "r", " ", "i", "P", "h", "o", "n", "e">> }

Sentences == { <<"a", " ", "b", " ", "c", " ", "d">>, <<"a", "b", "c", "d">>, <<"x", " ", "A", " ", "B", " ", "C", " ", "D">>, <<"b", " ", "c", " ", "d">>, <<"a", " ", "b", " ", " ", "c", " ", "d", " ", "e">> }

\* tweets.csv of two accounts, from no row at all to MaxTweets rows
HashtagFrames ==
    { Frame(TwoUsers, rows) :
        rows \in SeqsUpTo({ TweetRow(id, text, <<"w", "e", "b">>, Stamp("Wed", "Jan", 0, 2020)) :
                              id \in {1, 2}, text \in Texts }, MaxTweets) }

\* the tweets of one account, sent from up to MaxSources clients
SourceFrames ==
    { Frame(TwoUsers, [i \in 1..Len(sources) |->
                          TweetRow(1, <<"h", "i", " ", "a", "l", "l">>, sources[i],
                                   Stamp("Wed", "Jan", 0, 2020))]) :
        sources \in SeqsUpTo(Sources, MaxSources) \ {<<>>} }

\* n tweets of one word each, all different, sent after those of Stamps
Fillers(n) ==
    [k \in 1..n |->
        TweetRow(1, [i \in 1..k |-> "f"], <<"w", "e", "b">>, Stamp("Fri", "Jan", k, 2021))]

\* up to MaxTweets tweets of one account, listed in any order of time, alone
\* or ahead of enough later tweets to leave some of them out of the last ones
SimilarityFrames ==
    { Frame(OneUser, rows \o Fillers(n)) :
        rows \in SeqsUpTo({ TweetRow(1, text, <<"w", "e", "b">>, created) :
                              text \in Sentences, created \in Stamps },
                          MaxTweets) \ {<<>>},
        n \in {0} \cup ((LastTweets - 2)..LastTweets) }

Frames == HashtagFrames \cup SourceFrames \cup SimilarityFrames

InitFeature ==
    /\ ds = BlankDataset
    /\ last = Op("init", 0, NoErr)
    /\ CacheIdle
    /\ frame \in Frames
    /\ value = NoValue
    /\ groups = NoGroups

\* feature.evaluate(datafiles.extract(feature)) over the folder, once
Evaluate(feature) ==
    /\ value = NoValue
    /\ value' = evaluate_feature(frame, feature)
    /\ UNCHANGED <<ds, last, loaded, made, frame, groups>>

NextFeature == \E feature \in Features : Evaluate(feature)

SpecFeature == InitFeature /\ [][NextFeature]_vars

(***************************************************************************)
(* Claims about the evaluation of features.                                *)
(***************************************************************************)
\* the rows of tweets.csv of an account, and the account of the i-th value
TweetsOf(id) == SelectSeq(frame.tweets, LAMBDA r : r.user_id = id)
AccountAt(i) == frame.users[i].id
column_values(rows, column) == [i \in 1..Len(rows) |-> rows[i][column]]

TweetFeatureNames == { f.name : f \in Features \ {has_name} }

(***************************************************************************)
(* C18: evaluating a feature that reads the tweets never raises because    *)
(* tweets are absent, and gives False for every account that has no tweet, *)
(* whether other accounts of the folder have tweets or tweets.csv has no   *)
(* row at all.                                                             *)
(***************************************************************************)
C18_AbsentTweetsGiveFalse ==
    value.feature \in TweetFeatureNames =>
        /\ value.err = NoErr
        /\ \A i \in 1..Len(frame.users) :
              TweetsOf(AccountAt(i)) = <<>> => value.result[i] = FALSE

\* the platforms in the order of priority the classification is stated in
PlatformNames == <<<<"i", "p", "h", "o", "n", "e">>, <<"a", "n", "d", "r", "o", "i", "d">>, <<"i", "n", "s", "t", "a", "g", "r", "a", "m">>, <<"f", "o", "u", "r", "s", "q", "u", "a", "r", "e">>, <<"w", "e", "b">>>>

Matches(source) ==
    { k \in 1..Len(PlatformNames) : contains(PlatformNames[k], lower(source)) }

\* the one class of a source: the first platform it names, or the class
\* after the last platform, "other"
ClassOf(source) ==
    IF Matches(source) = {} THEN Len(PlatformNames) + 1
    ELSE CHOOSE k \in Matches(source) : \A m \in Matches(source) : k <= m

MostFrequentSource(id) == max_by_count(column_values(TweetsOf(id), "source"))

(***************************************************************************)
(* C19: for every account with at least one tweet, a platform feature is   *)
(* True exactly when it is the class of the account's most frequent source *)
(* (first maximum on ties), the class being the first of iphone, android,  *)
(* instagram, foursquare, web that the source names whatever the case, or  *)
(* other when it names none: exactly one of the six features is True.      *)
(***************************************************************************)
C19_ExactlyOnePlatform ==
    \A k \in 1..Len(PlatformFeatures) :
        (value.feature = PlatformFeatures[k].name /\ value.err = NoErr) =>
            \A i \in 1..Len(frame.users) :
                TweetsOf(AccountAt(i)) # <<>> =>
                    value.result[i] = (ClassOf(MostFrequentSource(AccountAt(i))) = k)

\* the lower-cased texts of the LastTweets most recent tweets of an account
RecentTweets(id) ==
    last_15(column_values(TweetsOf(id), "text"),
            column_values(TweetsOf(id), "created_at"))

\* the windows of exactly WindowWords consecutive words of the tweets, each
\* with the tweet and the position it stands at
WindowsOf(tweets) ==
    UNION { { <<t, p, join(SubSeq(split(tweets[t]), p, p + WindowWords - 1))>> :
                p \in 1..(Len(split(tweets[t])) - WindowWords + 1) } :
            t \in 1..Len(tweets) }

SomeWindowRepeats(tweets) ==
    \E v \in WindowsOf(tweets), w \in WindowsOf(tweets) : v # w /\ v[3] = w[3]

(***************************************************************************)
(* C20: tweets_similarity is True for an account exactly when, among its   *)
(* 15 most recent tweets by parsed creation time, lower-cased, some window *)
(* of exactly 4 consecutive words, concatenated, occurs more than once;    *)
(* older tweets and windows of fewer than 4 words do not flag the account. *)
(***************************************************************************)
C20_TrueIffFourWordWindowRepeats ==
    (value.feature = "tweets_similarity" /\ value.err = NoErr) =>
        \A i \in 1..Len(frame.users) :
            value.result[i] = SomeWindowRepeats(RecentTweets(AccountAt(i)))

(***************************************************************************)
(* Dataset.make_classification (src/dataset.py).                           *)
(***************************************************************************)
\* the name column of <folder>/users.csv: the second account of E13 has none
UsersCsvNames(folder) ==
    CASE folder = E13 -> <<<<"A", "n", "n">>, <<>>>>
      [] folder = TFP -> <<<<"B", "o", "b">>>>
      [] folder = FSF -> <<<<"E", "v", "e">>>>
      [] OTHER -> <<>>

\* the rows of <folder>/tweets.csv: TFP has the header and no row
TweetsCsv(folder) ==
    CASE folder = E13 ->
            <<TweetRow(1, <<"a", " ", "#", "t", "a", "g">>, <<"w", "e", "b">>, Stamp("Wed", "Jan", 0, 2020))>>
      [] folder = FSF ->
            <<TweetRow(4, <<"h", "i", " ", "a", "l", "l">>, <<"T", "w", "i", "t", "t", "e", "r", " ", "f", "o", "r", " ", "i", "P", "h", "o", "n", "e">>,
                       Stamp("Sat", "Feb", 0, 2020))>>
      [] OTHER -> <<>>

\* MinimalDatafiles(path): the files of a folder of the dataset
FolderFiles(folder) ==
    Frame([i \in 1..Len(UsersCsvIds(folder)) |->
              UserRow(UsersCsvIds(folder)[i], UsersCsvNames(folder)[i])],
          TweetsCsv(folder))

\* pd.concat(users_features): the rows of the folders one after the other
concat_rows(frames) ==
    DataFrame(join([i \in 1..Len(frames) |-> frames[i].index]),
              frames[1].columns,
              [id \in UNION { Range(frames[i].index) : i \in 1..Len(frames) } |->
                 frames[CHOOSE i \in 1..Len(frames) : id \in Range(frames[i].index)]
                    .rows[id]])

\* DataFrame.to_numpy(): the rows in the order of the index
to_numpy(df) == [i \in 1..Len(df.index) |-> df.rows[df.index[i]]]

\* self._users.index and self._users["label"]
users_index(users) == [i \in 1..Len(users) |-> users[i].user_id]
users_label(users) == [i \in 1..Len(users) |-> users[i].label]

\* the loop of make_classification: datafiles.extract(features) per folder
sub_users_features(self, features) ==
    [i \in 1..Len(self.datafiles) |->
        minimal_datafiles_extract(FolderFiles(self.datafiles[i]), features)]

classification_of(self, name, extracted) ==
    IF \E i \in 1..Len(extracted) : extracted[i].err # NoErr
    THEN Value(name, <<>>, <<>>, <<>>,
               extracted[CHOOSE i \in 1..Len(extracted) :
                            /\ extracted[i].err # NoErr
                            /\ \A j \in 1..(i - 1) : extracted[j].err = NoErr].err)
    ELSE IF extracted = <<>>
         THEN Value(name, <<>>, <<>>, <<>>, "ValueError")
         ELSE Value(name, users_index(self.users),
                    to_numpy(reindex(concat_rows([i \in 1..Len(extracted) |->
                                                     extracted[i].df]),
                                     users_index(self.users))),
                    users_label(self.users), NoErr)

\* Dataset.make_classification(features): a Feature is first put in a group
make_classification(self, features) ==
    classification_of(self, features.name,
        sub_users_features(self,
            IF isinstance_feature(features) THEN FeaturesGroup({features})
            ELSE features))

\* what callers pass: a Feature or a FeaturesGroup
FeatureArguments ==
    Features \cup {FeaturesGroup({has_name}), FeaturesGroup({has_name, uses_hashtag})}

InitClassify ==
    /\ ds \in Compared \cup {BlankDataset}
    /\ last = Op("init", 0, NoErr)
    /\ CacheIdle
    /\ FeatureIdle

\* X, y = ds.make_classification(features)
MakeClassification(features) ==
    /\ value' = make_classification(ds, features)
    /\ last' = Op("make_classification", 0, value'.err)
    /\ UNCHANGED <<ds, loaded, made, frame, groups>>

NextClassify == \E features \in FeatureArguments : MakeClassification(features)

SpecClassify == InitClassify /\ [][NextClassify]_vars

\* the features of an argument, one after the other
FeatureList(features) ==
    IF isinstance_feature(features) THEN <<features>>
    ELSE CHOOSE list \in [1..Cardinality(features.data) -> features.data] :
            Range(list) = features.data

\* the value of a feature for an account, evaluated over the account's folder
PositionIn(index, id) == CHOOSE i \in 1..Len(index) : index[i] = id

FeatureOf(feature, user) ==
    evaluate_feature(FolderFiles(<<user.label, user.dataset>>), feature)
        .result[PositionIn(UsersCsvIds(<<user.label, user.dataset>>), user.user_id)]

ExpectedRow(features, user) ==
    [k \in 1..Len(FeatureList(features)) |->
        FeatureOf(FeatureList(features)[k], user)]

(***************************************************************************)
(* C17: for every dataset, of one or several folders, undersampled or not, *)
(* and every Feature or FeaturesGroup, make_classification returns X and y *)
(* with one row per current account, in the order of the current accounts: *)
(* y[i] is the label of the i-th current account and X[i] holds the        *)
(* evaluated features of that account.                                     *)
(***************************************************************************)
C17_OneRowPerCurrentAccount ==
    \A features \in FeatureArguments :
        (last.op = "make_classification" /\ value.feature = features.name) =>
            /\ value.err = NoErr
            /\ value.y = users_label(ds.users)
            /\ value.result = [i \in 1..Len(ds.users) |->
                                  ExpectedRow(features, ds.users[i])]

(***************************************************************************)
(* C21: for a dataset FAK and n not larger than its number of users,       *)
(* FAK.undersample(n) returns a dataset object, other than FAK, whose size *)
(* is n.                                                                   *)
(***************************************************************************)
ReturnsDatasetOfSize(returned, n) ==
    isinstance_dataset(returned) /\ size(returned) = n

C21_UndersampleReturnsDataset ==
    [][\A n \in 0..MaxNum : \A smp \in SampleChoices(ds, n) :
         (/\ last'.op = "undersample"
          /\ n <= size(ds)
          /\ Undersampled(n, undersample(ds, n, smp))) =>
             ReturnsDatasetOfSize(undersample_returns(ds, n, smp), n)]_vars

(***************************************************************************)
(* Feature groups (src/feature.py, NamedSet and FeaturesGroup).            *)
(***************************************************************************)
MaxFeatures == 2

\* a faulty equality, which tells apart two features of the same name
feature_eq_every_field(self, other) == self = other

\* Feature.__eq__ and Feature.__hash__: the name alone is compared and hashed
feature_eq(self, other) == self.name = other.name

\* set.add(element): an element equal to one of the set is not added
set_add(data, element) ==
    IF \E x \in data : feature_eq(x, element) THEN data
    ELSE data \cup {element}

\* set(iterable), the elements added in the order of the iterable
RECURSIVE python_set(_)
python_set(iterable) ==
    IF iterable = <<>> THEN {}
    ELSE set_add(python_set(SubSeq(iterable, 1, Len(iterable) - 1)),
                 iterable[Len(iterable)])

\* self.data.union(other): a copy of self.data to which the elements of other
\* are added; no two elements of other are equal, their order has no effect
set_union(data, other) ==
    data \cup { x \in other : \A y \in data : ~feature_eq(y, x) }

\* FeaturesGroup(name, iterable), data being set(iterable)
NamedSet(name, data) == [cls |-> "FeaturesGroup", name |-> name, data |-> data]

\* the features groups are made of: two of them are named has_name
FeaturePool ==
    { has_name,
      Feature("has_name", "string_not_empty", None, << <<"users", "screen_name">> >>),
      uses_hashtag, tweets_similarity }

\* a set of features that is not a NamedSet
PlainSet == [cls |-> "set", data |-> {uses_hashtag}]

GroupsNamed(names) ==
    { NamedSet(name, python_set(iterable)) :
        name \in names, iterable \in SeqsUpTo(FeaturePool, MaxFeatures) }

\* what G | H returned or raised, and G and H after it
Ored(self, other, result, err) ==
    [op |-> "or", left |-> self, right |-> other, result |-> result, err |-> err]

\* NamedSet.__or__(self, other)
named_set_or(self, other) ==
    IF other.cls \notin {"set", "FeaturesGroup"}
    THEN Ored(self, other, NoneObject, "NotImplementedError")
    ELSE IF other.cls = "set"
         THEN Ored(self, other, NoneObject, "AttributeError")
         ELSE Ored(self, other,
                   NamedSet(self.name \o <<" ", "U", " ">> \o other.name,
                            set_union(self.data, other.data)),
                   NoErr)

InitGroup ==
    /\ ds = BlankDataset
    /\ last = Op("init", 0, NoErr)
    /\ CacheIdle
    /\ frame = NoFrame
    /\ value = NoValue
    /\ groups \in { [op |-> "none", left |-> G, right |-> H] :
                      G \in GroupsNamed({<<"A">>, <<"B">>}),
                      H \in GroupsNamed({<<"A">>, <<"C">>}) \cup {PlainSet, has_name} }

\* groups.left | groups.right
Or ==
    /\ groups.op = "none"
    /\ groups' = named_set_or(groups.left, groups.right)
    /\ UNCHANGED <<ds, last, loaded, made, frame, value>>

NextGroup == Or

SpecGroup == InitGroup /\ [][NextGroup]_vars

\* the names of the features of a group
NamesOf(data) == { f.name : f \in data }

(***************************************************************************)
(* C22: for all feature groups G and H, G | H is a new group named from    *)
(* the names of G and H, whose features are those of G and of H with the   *)
(* features of one name collapsed to one; G and H are left as they were,   *)
(* G | G has the features of G, and G | H has the features of H | G.       *)
(***************************************************************************)
C22_UnionOfGroups ==
    [][(groups'.op = "or" /\ groups.op = "none"
        /\ groups.right.cls = "FeaturesGroup") =>
          /\ groups'.err = NoErr
          /\ groups'.left = groups.left
          /\ groups'.right = groups.right
          /\ groups'.result.name =
                groups.left.name \o <<" ", "U", " ">> \o groups.right.name
          /\ NamesOf(groups'.result.data) =
                NamesOf(groups.left.data) \cup NamesOf(groups.right.data)
          /\ Cardinality(groups'.result.data) =
                Cardinality(NamesOf(groups'.result.data))
          /\ (groups.left = groups.right =>
                NamesOf(groups'.result.data) = NamesOf(groups.left.data))
          /\ NamesOf(groups'.result.data) =
                NamesOf(named_set_or(groups.right, groups.left).result.data)]_vars

\* G and H hold two different features of one name, and G | H holds one
C22_Witness ==
    /\ groups.op = "or"
    /\ groups.err = NoErr
    /\ \E f \in groups.left.data : \E g \in groups.right.data :
          f.name = g.name /\ f # g
    /\ Cardinality(groups.result.data) <
          Cardinality(groups.left.data) + Cardinality(groups.right.data)

C25_CacheHoldsNormalizedTables ==
    /\ \A key \in DOMAIN loaded : loaded[key].prepared
    /\ made.err # NoErr => made.key \notin DOMAIN loaded
    /\ (made.key # <<>> /\ made.err = NoErr) => loaded[made.key].prepared

(***************************************************************************)
(* C24: in every state reachable through construction, +, +=, undersample  *)
(* and reset_full_users, unions of datasets that share a folder included,  *)
(* the size never exceeds the number of full users, and the full users     *)
(* hold one row per account of each distinct folder in paths_to_csv: no    *)
(* account is counted twice.                                               *)
(***************************************************************************)
CountedOnce(users) ==
    \A i, j \in 1..Len(users) : users[i].user_id = users[j].user_id => i = j

C24_FullUsersCountEachAccountOnce ==
    /\ size(ds) <= Len(ds.full_users)
    /\ FolderAccounts(paths_to_csv(ds)) \subseteq FullAccounts(ds)
    /\ CountedOnce(ds.full_users)
====
